---------------------------- MODULE Spec2Model ----------------------------
(***************************************************************************)
(* Green Travel Planner (script.js): the emission scoring engine           *)
(* computeModes, the recent-trip persistence (loadRecentTrips,             *)
(* saveRecentTrip over localStorage) and the form's submit handler.        *)
(*                                                                         *)
(* Numbers.  A JavaScript number is modelled as a record                   *)
(*   [k |-> "fin", n |-> numerator, d |-> denominator]   the rational n/d  *)
(*   [k |-> "inf", n |-> +1 or -1, d |-> 1]              +-Infinity        *)
(*   [k |-> "nan", n |-> 0, d |-> 1]                     NaN               *)
(* Distances are given in thousandths of a km, emission factors in         *)
(* thousandths of a kg per km.  A product of two doubles is inexact, so    *)
(* where the exact value handed to Math.round lies halfway between two     *)
(* integers the double may round either way (0.05 * 0.29 * 1000 rounds to  *)
(* 14, 0.05 * 0.01 * 1000 to 1): roundTo takes the direction of such a tie *)
(* as its third argument and the actions choose it nondeterministically.   *)
(***************************************************************************)
EXTENDS Integers, Sequences, FiniteSets

VARIABLES
    page,         \* "core" | "loading" | "ready" | "crashed"
    storageMode,  \* "ok" | "full" (setItem throws) | "denied" (any access throws)
    storage,      \* the raw value held under STORAGE_KEY
    form,         \* the form values of the last submit, or NoForm
    alerted,      \* the last submit showed the alert
    coreArgs,     \* <<distanceKm, purpose>> of the last computeModes call, or <<>>
    modes,        \* what that call returned
    rendered,     \* the last submit called renderResults
    thrown,       \* an exception left saveRecentTrip in the last submit
    newList,      \* what saveRecentTrip returned in the last submit
    recentShown,  \* the list last given to renderRecentTrips
    saved,        \* every trip handed to saveRecentTrip so far, oldest first
    startedClean, \* the history was empty or missing when the page loaded
    storageBefore,\* the raw value under STORAGE_KEY when the last submit began
    themeBtn      \* the page has the #themeToggle button (it matters only
                  \* when storage is denied: initThemeToggle reads storage)

vars == <<page, storageMode, storage, form, alerted, coreArgs, modes, rendered,
          thrown, newList, recentShown, saved, startedClean, storageBefore,
          themeBtn>>

\* ---------------------------------------------------------------- bounds

MaxDistMilli == 10040

MaxSubmits == 7

\* --------------------------------------------------------------- numbers

Fin(n, d) == [k |-> "fin", n |-> n, d |-> d]

NaN == [k |-> "nan", n |-> 0, d |-> 1]

PosInf == [k |-> "inf", n |-> 1, d |-> 1]

NegInf == [k |-> "inf", n |-> -1, d |-> 1]

Zero == Fin(0, 1)

IsNaN(x) == x.k = "nan"

IsFinite(x) == x.k = "fin"

\* The sign of x: -1, 0, 1 (x is not NaN).
Sign(x) == IF x.n < 0 THEN -1 ELSE IF x.n > 0 THEN 1 ELSE 0

\* x < y as JavaScript evaluates it: false when either is NaN.
Lt(x, y) ==
    IF IsNaN(x) \/ IsNaN(y) THEN FALSE
    ELSE IF x.k = "inf" THEN x.n < 0 /\ ~(y.k = "inf" /\ y.n < 0)
    ELSE IF y.k = "inf" THEN y.n > 0
    ELSE x.n * y.d < y.n * x.d

\* x === y on numbers: false when either is NaN.
Eq(x, y) ==
    IF IsNaN(x) \/ IsNaN(y) THEN FALSE
    ELSE IF x.k = "inf" \/ y.k = "inf" THEN x.k = y.k /\ x.n = y.n
    ELSE x.n * y.d = y.n * x.d

Gt(x, y) == Lt(y, x)

Le(x, y) == Lt(x, y) \/ Eq(x, y)

RECURSIVE GCD(_, _)
GCD(a, b) == IF b = 0 THEN a ELSE GCD(b, a % b)

\* n/d in lowest terms (d > 0).
Ratio(n, d) ==
    LET g == GCD(IF n < 0 THEN -n ELSE n, d)
    IN  IF g = 0 THEN Fin(0, 1) ELSE Fin(n \div g, d \div g)

\* x * y: 0 * Infinity is NaN.
Mul(x, y) ==
    IF IsNaN(x) \/ IsNaN(y) THEN NaN
    ELSE IF x.k = "inf" \/ y.k = "inf"
         THEN IF Sign(x) = 0 \/ Sign(y) = 0 THEN NaN
              ELSE [k |-> "inf", n |-> Sign(x) * Sign(y), d |-> 1]
    ELSE Fin(x.n * y.n, x.d * y.d)

\* x - y: Infinity - Infinity is NaN.
Sub(x, y) ==
    IF IsNaN(x) \/ IsNaN(y) THEN NaN
    ELSE IF x.k = "inf"
         THEN IF y.k = "inf" /\ y.n = x.n THEN NaN ELSE x
    ELSE IF y.k = "inf" THEN [k |-> "inf", n |-> -y.n, d |-> 1]
    ELSE Ratio(x.n * y.d - y.n * x.d, x.d * y.d)

\* x / y for y > 0 or y infinite: Infinity / Infinity is NaN.
Div(x, y) ==
    IF IsNaN(x) \/ IsNaN(y) THEN NaN
    ELSE IF x.k = "inf" THEN (IF y.k = "inf" THEN NaN ELSE x)
    ELSE IF y.k = "inf" THEN Zero
    ELSE Ratio(x.n * y.d, x.d * y.n)

\* Math.max(a, b): NaN when either is NaN.
MathMax(a, b) ==
    IF IsNaN(a) \/ IsNaN(b) THEN NaN ELSE IF Lt(a, b) THEN b ELSE a

RECURSIVE Pow10(_)
Pow10(e) == IF e = 0 THEN 1 ELSE 10 * Pow10(e - 1)

\* Math.round(value * factor) / factor.  Math.round takes the nearest
\* integer, a half going up; `up` is the way the double falls when the exact
\* product is a half.
roundTo(value, decimals, up) ==
    IF ~IsFinite(value) THEN value
    ELSE LET factor == Pow10(decimals)
             g      == GCD(factor, value.d)
             num    == value.n * (factor \div g)
             den    == value.d \div g
             q      == num \div den
             rem    == num - q * den
             r      == IF 2 * rem > den THEN q + 1
                       ELSE IF 2 * rem = den /\ up THEN q + 1
                       ELSE q
         IN  Fin(r, factor)

\* The exact value * 10^decimals is halfway between two integers.
IsTie(value, decimals) ==
    /\ IsFinite(value)
    /\ roundTo(value, decimals, TRUE) # roundTo(value, decimals, FALSE)

\* ------------------------------------------------------------------ data

Keys == <<"walk", "cycle", "bus", "metro", "bike", "car", "carpool", "evCar",
          "flight">>

KeySet == {Keys[i] : i \in 1..Len(Keys)}

EMISSION_FACTORS ==
    [key \in KeySet |->
        CASE key = "walk"    -> Fin(0, 1)
          [] key = "cycle"   -> Fin(0, 1)
          [] key = "bus"     -> Fin(105, 1000)
          [] key = "metro"   -> Fin(41, 1000)
          [] key = "bike"    -> Fin(103, 1000)
          [] key = "car"     -> Fin(192, 1000)
          [] key = "carpool" -> Fin(64, 1000)
          [] key = "evCar"   -> Fin(50, 1000)
          [] key = "flight"  -> Fin(255, 1000)]

MODE_META ==
    [key \in KeySet |->
        CASE key = "walk"    -> [label |-> "Walking"]
          [] key = "cycle"   -> [label |-> "Cycling"]
          [] key = "bus"     -> [label |-> "Bus"]
          [] key = "metro"   -> [label |-> "Metro / Train"]
          [] key = "bike"    -> [label |-> "Motorbike"]
          [] key = "car"     -> [label |-> "Car (Solo Petrol)"]
          [] key = "carpool" -> [label |-> "Car-pool"]
          [] key = "evCar"   -> [label |-> "Electric Car"]
          [] key = "flight"  -> [label |-> "Flight"]]

Purposes == {"daily", "casual", "work", "long"}

\* ---------------------------------------------------------- computeModes

\* excluded without its last rule (flight on a daily trip under 10 km).
excluded_NoDailyRule(key, distanceKm, purpose) ==
    \/ Lt(distanceKm, Fin(1, 1)) /\ key \in {"bus", "metro", "flight"}
    \/ Lt(distanceKm, Fin(2, 1)) /\ key = "flight"
    \/ Lt(distanceKm, Fin(3, 1)) /\ key = "metro"
    \/ Lt(distanceKm, Fin(5, 1)) /\ key = "flight"

\* excluded with walking and cycling dropped from long journeys.
excluded_LongNoWalk(key, distanceKm, purpose) ==
    \/ Lt(distanceKm, Fin(1, 1)) /\ key \in {"bus", "metro", "flight"}
    \/ Lt(distanceKm, Fin(2, 1)) /\ key = "flight"
    \/ Lt(distanceKm, Fin(3, 1)) /\ key = "metro"
    \/ Lt(distanceKm, Fin(5, 1)) /\ key = "flight"
    \/ Lt(distanceKm, Fin(10, 1)) /\ purpose = "daily" /\ key = "flight"
    \/ ~Lt(distanceKm, Fin(10, 1)) /\ key \in {"walk", "cycle"}

\* excluded without the rule that drops flight under 5 km.
excluded_NoFiveRule(key, distanceKm, purpose) ==
    \/ Lt(distanceKm, Fin(1, 1)) /\ key \in {"bus", "metro", "flight"}
    \/ Lt(distanceKm, Fin(2, 1)) /\ key = "flight"
    \/ Lt(distanceKm, Fin(3, 1)) /\ key = "metro"
    \/ Lt(distanceKm, Fin(10, 1)) /\ purpose = "daily" /\ key = "flight"

\* The loop's `continue` conditions: the mode is skipped.
excluded(key, distanceKm, purpose) ==
    \/ Lt(distanceKm, Fin(1, 1)) /\ key \in {"bus", "metro", "flight"}
    \/ Lt(distanceKm, Fin(2, 1)) /\ key = "flight"
    \/ Lt(distanceKm, Fin(3, 1)) /\ key = "metro"
    \/ Lt(distanceKm, Fin(5, 1)) /\ key = "flight"
    \/ Lt(distanceKm, Fin(10, 1)) /\ purpose = "daily" /\ key = "flight"

\* The keys the loop pushes, in the order of Object.entries.
pushedKeys(distanceKm, purpose) ==
    SelectSeq(Keys, LAMBDA key : ~excluded(key, distanceKm, purpose))

\* The keys whose factor * distanceKm * 1000 is exactly a half.
emissionTies(distanceKm, purpose) ==
    {key \in KeySet :
        /\ ~excluded(key, distanceKm, purpose)
        /\ IsTie(Mul(EMISSION_FACTORS[key], distanceKm), 3)}

\* The array after the loop; eUp: the keys whose tie rounds up.
pushModes(distanceKm, purpose, eUp) ==
    LET ks == pushedKeys(distanceKm, purpose)
    IN  [i \in 1..Len(ks) |->
            [key        |-> ks[i],
             label      |-> MODE_META[ks[i]].label,
             emissionKg |-> roundTo(Mul(EMISSION_FACTORS[ks[i]], distanceKm), 3,
                                    ks[i] \in eUp)]]

RECURSIVE maxOf(_)
maxOf(s) == IF Len(s) = 1 THEN s[1] ELSE MathMax(s[1], maxOf(Tail(s)))

\* The maximum emission among the modes with emissionKg > 0, or 1.
maxEmissionOf(ms) ==
    LET nonZero == SelectSeq(ms, LAMBDA m : Gt(m.emissionKg, Zero))
    IN  IF Len(nonZero) > 0
        THEN maxOf([i \in 1..Len(nonZero) |-> nonZero[i].emissionKg])
        ELSE Fin(1, 1)

\* rawScore with a range of 60 in place of 80.
rawScore_Scale60(emissionKg, maxEmission) ==
    Sub(Fin(100, 1), Mul(Div(emissionKg, maxEmission), Fin(60, 1)))

\* 100 - ratio * 80 for a mode of non-zero emission.
rawScore(emissionKg, maxEmission) ==
    Sub(Fin(100, 1), Mul(Div(emissionKg, maxEmission), Fin(80, 1)))

greenScoreOf(emissionKg, maxEmission, up) ==
    IF Eq(emissionKg, Zero) THEN Fin(100, 1)
    ELSE MathMax(Fin(20, 1), roundTo(rawScore(emissionKg, maxEmission), 0, up))

\* The keys whose score is exactly a half before rounding.
scoreTies(ms) ==
    {ms[i].key : i \in {j \in 1..Len(ms) :
        /\ ~Eq(ms[j].emissionKg, Zero)
        /\ IsTie(rawScore(ms[j].emissionKg, maxEmissionOf(ms)), 0)}}

\* The forEach that sets greenScore; sUp: the keys whose tie rounds up.
scoreModes(ms, sUp) ==
    LET maxEmission == maxEmissionOf(ms)
    IN  [i \in 1..Len(ms) |->
            [key        |-> ms[i].key,
             label      |-> ms[i].label,
             emissionKg |-> ms[i].emissionKg,
             greenScore |-> greenScoreOf(ms[i].emissionKg, maxEmission,
                                         ms[i].key \in sUp)]]

\* comesAfter with equal emissions swapped too (an unstable sort).
comesAfter_Unstable(a, b) ==
    LET diff == Sub(a.emissionKg, b.emissionKg)
    IN  ~IsNaN(diff) /\ Sign(diff) >= 0

\* The comparator (a, b) => a.emissionKg - b.emissionKg puts a after b only
\* when the difference is positive; a NaN difference counts as 0.
comesAfter(a, b) ==
    LET diff == Sub(a.emissionKg, b.emissionKg)
    IN  ~IsNaN(diff) /\ Sign(diff) > 0

\* x inserted into the sorted s behind every element it does not precede.
RECURSIVE insertSorted(_, _)
insertSorted(s, x) ==
    IF Len(s) = 0 THEN <<x>>
    ELSE IF comesAfter(s[Len(s)], x)
         THEN Append(insertSorted(SubSeq(s, 1, Len(s) - 1), x), s[Len(s)])
         ELSE Append(s, x)

\* Array.prototype.sort with that comparator: a stable sort.
RECURSIVE sortModes(_)
sortModes(ms) ==
    IF Len(ms) = 0 THEN <<>>
    ELSE insertSorted(sortModes(SubSeq(ms, 1, Len(ms) - 1)), ms[Len(ms)])

computeModes(distanceKm, purpose, eUp, sUp) ==
    sortModes(scoreModes(pushModes(distanceKm, purpose, eUp), sUp))

\* ------------------------------------------------------- classifyTrip etc.

classifyTrip(distanceKm) ==
    IF Le(distanceKm, Fin(2, 1)) THEN "Very short (ideal for walking/cycling)"
    ELSE IF Le(distanceKm, Fin(8, 1)) THEN "Short city trip"
    ELSE IF Le(distanceKm, Fin(30, 1)) THEN "Medium city / town trip"
    ELSE "Long distance trip"

purposeLabelOf(purpose) ==
    IF purpose = "daily" THEN "Daily commute"
    ELSE IF purpose = "casual" THEN "Casual outing"
    ELSE IF purpose = "work" THEN "Work / Business"
    ELSE "Long journey"

\* ----------------------------------------------------------- persistence

\* JSON's null, where a number was.
Null == [k |-> "null", n |-> 0, d |-> 1]

\* JSON.stringify writes NaN and +-Infinity as null; a finite double is
\* written so that JSON.parse reads the same double back.
jsonNumber(x) == IF IsFinite(x) THEN x ELSE Null

jsonTrip(t) ==
    [t EXCEPT !.distance = jsonNumber(@), !.bestEmission = jsonNumber(@)]

\* The raw values localStorage can hold under STORAGE_KEY.
RawNull == [kind |-> "null", items |-> <<>>]

RawGarbage == [kind |-> "garbage", items |-> <<>>]

RawObject == [kind |-> "object", items |-> <<>>]

\* JSON.stringify(list): the text of an array, given as what parsing it yields.
JSONstringify(list) ==
    [kind  |-> "array",
     items |-> [i \in 1..Len(list) |-> jsonTrip(list[i])]]

\* The outcome of a call: what it returns, whether it threw instead, and the
\* raw value it leaves under STORAGE_KEY.
Outcome(threw, list, raw) == [threw |-> threw, list |-> list, raw |-> raw]

\* loadRecentTrips: getItem throws when storage is denied, JSON.parse throws
\* on text that is no JSON; the catch returns [].
loadRecentTrips(mode, raw) ==
    IF mode = "denied" THEN <<>>
    ELSE IF raw.kind = "null" THEN <<>>
    ELSE IF raw.kind = "garbage" THEN <<>>
    ELSE IF raw.kind # "array" THEN <<>>
    ELSE raw.items

\* saveRecentTrip: setItem is called outside any try, so its exception
\* (storage denied, quota exceeded) leaves the function.
saveRecentTrip(mode, raw, trip) ==
    LET current == loadRecentTrips(mode, raw)
        unshifted == <<trip>> \o current
        trimmed == SubSeq(unshifted, 1, IF Len(unshifted) < 6 THEN Len(unshifted) ELSE 6)
    IN  IF mode # "ok" THEN Outcome(TRUE, <<>>, raw)
        ELSE Outcome(FALSE, trimmed, JSONstringify(trimmed))

\* ---------------------------------------------------------------- the page

\* parseFloat on the texts the distance field is given here.
parseFloat(text) ==
    CASE text = "abc"       -> NaN
      [] text = "-3"        -> Fin(-3000, 1000)
      [] text = "0"         -> Fin(0, 1000)
      [] text = "0.004"     -> Fin(4, 1000)
      [] text = "7.2"       -> Fin(7200, 1000)
      [] text = "Infinity"  -> PosInf

\* No submit yet.
NoForm == [distance |-> "", purpose |-> "", from |-> "", to |-> ""]

\* The submissions tried: distance text, purpose, from, to.
Forms ==
    {[distance |-> "abc",      purpose |-> "daily", from |-> "",     to |-> "Office"],
     [distance |-> "-3",       purpose |-> "work",  from |-> "Home", to |-> "Office"],
     [distance |-> "0",        purpose |-> "daily", from |-> "Home", to |-> "Office"],
     [distance |-> "0.004",    purpose |-> "daily", from |-> "Home", to |-> "Office"],
     [distance |-> "7.2",      purpose |-> "",      from |-> "",     to |-> "Office"],
     [distance |-> "Infinity", purpose |-> "long",  from |-> "Home", to |-> "Office"]}

\* A trip an earlier visit left in the history.
OldTrip ==
    [from |-> "Home", to |-> "Park", distance |-> Fin(120, 100),
     bestLabel |-> "Walking", bestEmission |-> Fin(0, 1000),
     tripType |-> "Very short (ideal for walking/cycling)",
     purposeLabel |-> "Casual outing"]

InitialStorages ==
    {RawNull, RawGarbage, RawObject, JSONstringify(<<>>), JSONstringify(<<OldTrip>>)}

Init ==
    /\ page = "loading"
    /\ storageMode \in {"ok", "full", "denied"}
    /\ themeBtn \in (IF storageMode = "denied" THEN BOOLEAN ELSE {TRUE})
    /\ storage \in InitialStorages
    /\ startedClean = (storage \in {RawNull, JSONstringify(<<>>)})
    /\ storageBefore = storage
    /\ form = NoForm
    /\ alerted = FALSE
    /\ coreArgs = <<>>
    /\ modes = <<>>
    /\ rendered = FALSE
    /\ thrown = FALSE
    /\ newList = <<>>
    /\ recentShown = <<>>
    /\ saved = <<>>

\* The DOMContentLoaded listener: initThemeToggle reads localStorage outside
\* any try, so with storage denied the listener ends there and the submit
\* handler is never attached; otherwise the stored trips are loaded and shown.
DOMContentLoaded ==
    /\ page = "loading"
    /\ IF themeBtn /\ storageMode = "denied"
       THEN /\ page' = "crashed"
            /\ recentShown' = recentShown
       ELSE /\ page' = "ready"
            /\ recentShown' = loadRecentTrips(storageMode, storage)
    /\ UNCHANGED <<storageMode, storage, form, alerted, coreArgs, modes, rendered,
                   thrown, newList, saved, startedClean, storageBefore, themeBtn>>

\* The record the handler hands to saveRecentTrip.
tripRecord(f, purpose, distanceKm, best) ==
    [from         |-> IF f.from = "" THEN "Unknown" ELSE f.from,
     to           |-> IF f.to = "" THEN "Unknown" ELSE f.to,
     distance     |-> distanceKm,
     bestLabel    |-> best.label,
     bestEmission |-> best.emissionKg,
     tripType     |-> classifyTrip(distanceKm),
     purposeLabel |-> purposeLabelOf(purpose)]

\* The handler's test of the parsed distance: the alert is shown.
rejected(distance) == IsNaN(distance) \/ Le(distance, Zero)

\* The submit handler, run on the form values f.
Submit(f) ==
    /\ page = "ready"
    /\ Len(saved) < MaxSubmits
    /\ form' = f
    /\ storageBefore' = storage
    /\ LET purpose  == IF f.purpose = "" THEN "daily" ELSE f.purpose
           distance == parseFloat(f.distance)
       IN  IF rejected(distance)
           THEN /\ alerted' = TRUE
                /\ coreArgs' = <<>>
                /\ modes' = <<>>
                /\ rendered' = FALSE
                /\ thrown' = FALSE
                /\ newList' = <<>>
                /\ UNCHANGED <<storage, recentShown, saved>>
           ELSE \E up \in (IF IsTie(distance, 2) THEN BOOLEAN ELSE {TRUE}) :
                LET distanceKm == roundTo(distance, 2, up)
                IN  \E eUp \in SUBSET emissionTies(distanceKm, purpose) :
                    \E sUp \in SUBSET scoreTies(pushModes(distanceKm, purpose, eUp)) :
                    /\ alerted' = FALSE
                    /\ coreArgs' = <<distanceKm, purpose>>
                    /\ modes' = computeModes(distanceKm, purpose, eUp, sUp)
                    /\ rendered' = TRUE
                    /\ IF Len(modes') > 0
                       THEN LET trip == tripRecord(f, purpose, distanceKm, modes'[1])
                                out  == saveRecentTrip(storageMode, storage, trip)
                            IN  /\ saved' = Append(saved, trip)
                                /\ thrown' = out.threw
                                /\ newList' = out.list
                                /\ storage' = out.raw
                                /\ recentShown' = IF out.threw THEN recentShown
                                                  ELSE out.list
                       ELSE /\ thrown' = FALSE
                            /\ newList' = <<>>
                            /\ UNCHANGED <<storage, recentShown, saved>>
    /\ UNCHANGED <<page, storageMode, startedClean, themeBtn>>

Next ==
    \/ DOMContentLoaded
    \/ \E f \in Forms : Submit(f)

Spec == Init /\ [][Next]_vars

\* ------------------------------------------------- the engine on its own

\* A query of the engine: a positive finite distance and a purpose.
InitCore ==
    /\ page = "core"
    /\ storageMode = "ok"
    /\ storage = [kind |-> "null", items |-> <<>>]
    /\ form = NoForm
    /\ alerted = FALSE
    /\ \E dm \in 1..MaxDistMilli, p \in Purposes :
           coreArgs = <<Fin(dm, 1000), p>>
    /\ modes = <<>>
    /\ rendered = FALSE
    /\ thrown = FALSE
    /\ newList = <<>>
    /\ recentShown = <<>>
    /\ saved = <<>>
    /\ startedClean = TRUE
    /\ storageBefore = storage
    /\ themeBtn = TRUE

Evaluate ==
    /\ page = "core"
    /\ modes = <<>>
    /\ \E eUp \in SUBSET emissionTies(coreArgs[1], coreArgs[2]) :
         LET ms == pushModes(coreArgs[1], coreArgs[2], eUp)
         IN  \E sUp \in SUBSET scoreTies(ms) :
                modes' = sortModes(scoreModes(ms, sUp))
    /\ UNCHANGED <<page, storageMode, storage, form, alerted, coreArgs, rendered,
                   thrown, newList, recentShown, saved, startedClean,
                   storageBefore, themeBtn>>

NextCore == Evaluate

SpecCore == InitCore /\ [][NextCore]_vars

Evaluated == page = "core" /\ modes # <<>>


\* ------------------------------------------------- properties of the page

\* The k newest of the trips handed to saveRecentTrip, newest first.
Newest(s, k) ==
    [i \in 1..(IF Len(s) < k THEN Len(s) ELSE k) |-> s[Len(s) - i + 1]]

\* A submit has run and its distance text parsed to d.
Submitted == page = "ready" /\ form # NoForm

\* A distance that is not a number, not positive or not finite.
InvalidDistance(d) == IsNaN(d) \/ ~IsFinite(d) \/ Le(d, Zero)

\* C5: from an empty or missing history and with storage working, after n
\* calls of saveRecentTrip the stored list, the list the last call returned
\* and the list loadRecentTrips yields are the min(n, 6) most recent trips,
\* newest first, each as it was saved.
C5_RecentTripsCap ==
    (page = "ready" /\ startedClean /\ storageMode = "ok") =>
        /\ loadRecentTrips(storageMode, storage) = Newest(saved, 6)
        /\ coreArgs # <<>> => newList = Newest(saved, 6)

\* What the code keeps of C5: the stored list is the JSON image of the 6
\* newest trips (a NaN or Infinity in a record is stored as null).
C5_StoredIsJsonOfNewest ==
    (page = "ready" /\ startedClean /\ storageMode = "ok") =>
        loadRecentTrips(storageMode, storage)
            = [i \in 1..Len(Newest(saved, 6)) |-> jsonTrip(Newest(saved, 6)[i])]

\* C6: with storage unavailable, missing or corrupted, loadRecentTrips and
\* saveRecentTrip take the history to be empty and no exception leaves them.
C6_StorageFailuresDegrade ==
    /\ ~thrown
    /\ (storageMode = "denied" \/ storage.kind # "array")
          => loadRecentTrips(storageMode, storage) = <<>>
    /\ (page = "ready" /\ form = NoForm
            /\ (storageMode = "denied" \/ storage.kind # "array"))
          => recentShown = <<>>

\* What the code keeps of C6: loadRecentTrips never throws and yields [] on
\* every unusable storage; only saveRecentTrip's setItem throws.
C6_LoadDegrades ==
    /\ (storageMode = "denied" \/ storage.kind # "array")
          => loadRecentTrips(storageMode, storage) = <<>>
    /\ thrown => storageMode # "ok"

\* C7: a submit whose distance is non-numeric, non-positive or non-finite
\* shows the alert, calls neither computeModes nor renderResults and leaves
\* the stored history as it was.
C7_InvalidDistanceBlocked ==
    (Submitted /\ InvalidDistance(parseFloat(form.distance))) =>
        /\ alerted
        /\ coreArgs = <<>>
        /\ ~rendered
        /\ storage = storageBefore

\* What the code keeps of C7: NaN and non-positive distances are blocked.
C7_NaNOrNonPositiveBlocked ==
    (Submitted /\ rejected(parseFloat(form.distance))) =>
        /\ alerted
        /\ coreArgs = <<>>
        /\ ~rendered
        /\ storage = storageBefore

\* C8: every distanceKm the submit handler hands to computeModes is finite
\* and > 0.
C8_CoreDistancePositiveFinite ==
    (page = "ready" /\ coreArgs # <<>>) =>
        IsFinite(coreArgs[1]) /\ Gt(coreArgs[1], Zero)

\* C10: every record the submit handler has written to the history has
\* bestLabel "Walking" and bestEmission 0.
C10_BestIsWalkingZero ==
    page = "ready" =>
        \A i \in 1..Len(saved) :
            /\ saved[i].bestLabel = "Walking"
            /\ Eq(saved[i].bestEmission, Zero)

\* What the code keeps of C10: the best mode is always walking, and its
\* emission is 0 unless the distance saved is not finite.
C10_BestIsWalking ==
    page = "ready" =>
        \A i \in 1..Len(saved) :
            /\ saved[i].bestLabel = "Walking"
            /\ IsFinite(saved[i].distance) => Eq(saved[i].bestEmission, Zero)

\* ------------------------------------------------ properties of the engine

\* The query of the engine run on its own, in thousandths of a km.
QueryMilli == coreArgs[1].n

QueryPurpose == coreArgs[2]

ResultKeys == {modes[i].key : i \in 1..Len(modes)}

\* The place of a key in EMISSION_FACTORS.
DefIndex(key) == CHOOSE i \in 1..Len(Keys) : Keys[i] = key

\* An emission in thousandths of a kg (roundTo(.., 3) gives d = 1000).
Grams(m) == m.emissionKg.n

\* C1: for every distance d > 0 and every purpose, the keys returned are
\* walk, cycle, bike, car, carpool, evCar always; bus iff d >= 1; metro iff
\* d >= 3; flight iff d >= 5 and not (purpose = daily and d < 10); each once.
C1_ModeKeySet ==
    Evaluated =>
        /\ Cardinality(ResultKeys) = Len(modes)
        /\ ResultKeys =
              {"walk", "cycle", "bike", "car", "carpool", "evCar"}
              \cup (IF QueryMilli >= 1000 THEN {"bus"} ELSE {})
              \cup (IF QueryMilli >= 3000 THEN {"metro"} ELSE {})
              \cup (IF /\ QueryMilli >= 5000
                       /\ ~(QueryPurpose = "daily" /\ QueryMilli < 10000)
                    THEN {"flight"} ELSE {})

\* C1 witness. A daily trip of 10 km or more: flight is offered.
C1_Witness ==
    /\ Evaluated
    /\ QueryPurpose = "daily"
    /\ QueryMilli >= 10000
    /\ "flight" \in ResultKeys

\* C2: for every distance > 0 and every purpose the result is non-empty and
\* holds walk and cycle.
C2_WalkAndCycleAlways ==
    Evaluated => Len(modes) > 0 /\ {"walk", "cycle"} \subseteq ResultKeys

\* C2 witness. A long journey of 10 km or more still offers walking and
\* cycling.
C2_Witness ==
    /\ Evaluated
    /\ QueryPurpose = "long"
    /\ QueryMilli >= 10000
    /\ {"walk", "cycle"} \subseteq ResultKeys

\* C3: the result is ordered ascending by emissionKg, and modes of equal
\* emissionKg keep the order of EMISSION_FACTORS.
C3_SortedStable ==
    Evaluated =>
        \A i, j \in 1..Len(modes) :
            i < j =>
                \/ Grams(modes[i]) < Grams(modes[j])
                \/ /\ Grams(modes[i]) = Grams(modes[j])
                   /\ DefIndex(modes[i].key) < DefIndex(modes[j].key)

\* C3 witness. The sort moved a mode (metro ahead of bus, say) and two modes
\* of equal non-zero emission are in the result.
C3_Witness ==
    /\ Evaluated
    /\ \E i, j \in 1..Len(modes) :
          i < j /\ DefIndex(modes[i].key) > DefIndex(modes[j].key)
    /\ \E i, j \in 1..Len(modes) :
          i < j /\ Grams(modes[i]) = Grams(modes[j]) /\ Grams(modes[i]) > 0

IsIntegerIn(x, lo, hi) == x.k = "fin" /\ x.d = 1 /\ lo <= x.n /\ x.n <= hi

IsHighest(i) == \A j \in 1..Len(modes) : Grams(modes[j]) <= Grams(modes[i])

\* C4 as stated: zero emission scores 100, the highest emission scores
\* exactly 20, every score is an integer in [20, 100].
C4_Original ==
    Evaluated =>
        \A i \in 1..Len(modes) :
            /\ Grams(modes[i]) = 0 => modes[i].greenScore = Fin(100, 1)
            /\ IsHighest(i) => modes[i].greenScore = Fin(20, 1)
            /\ IsIntegerIn(modes[i].greenScore, 20, 100)

\* C4 amended: zero emission scores 100, every score is an integer in
\* [20, 100], and the highest emission scores exactly 20 when it is not zero
\* (a distance so short that every emission rounds to 0 scores 100 throughout).
C4_ScoreRange ==
    Evaluated =>
        \A i \in 1..Len(modes) :
            /\ Grams(modes[i]) = 0 => modes[i].greenScore = Fin(100, 1)
            /\ IsHighest(i) /\ Grams(modes[i]) > 0
                  => modes[i].greenScore = Fin(20, 1)
            /\ IsIntegerIn(modes[i].greenScore, 20, 100)

\* C4 witness. A result with a zero-emission mode, a highest emitter above
\* zero and a mode scored strictly between 20 and 100.
C4_Witness ==
    /\ Evaluated
    /\ \E i \in 1..Len(modes) : IsHighest(i) /\ Grams(modes[i]) > 0
    /\ \E i \in 1..Len(modes) : Grams(modes[i]) = 0
    /\ \E i \in 1..Len(modes) :
          modes[i].greenScore.n > 20 /\ modes[i].greenScore.n < 100

\* C9 as stated: at least one of the 9 defined modes is absent from every
\* result.
C9_Original == Evaluated => ResultKeys \subseteq KeySet /\ ResultKeys # KeySet

\* C9 amended: the result is a subset of the defined modes, and a mode is
\* absent exactly when d < 5, or the purpose is daily and d < 10.
C9_SubsetStrictIffShort ==
    Evaluated =>
        /\ ResultKeys \subseteq KeySet
        /\ ResultKeys # KeySet
              <=> \/ QueryMilli < 5000
                  \/ QueryPurpose = "daily" /\ QueryMilli < 10000

\* C9 witness. A query that returns all 9 modes.
C9_Witness == Evaluated /\ ResultKeys = KeySet /\ QueryPurpose = "work"

=============================================================================
